---- MODULE Spec2Model ----
(***************************************************************************)
(* cTrader order bridge: the connection / session state machine, the       *)
(* request correlator and the order gateway, as the repository's variants  *)
(* of index.js implement them.  One behaviour runs one variant:            *)
(*                                                                         *)
(*   SpecA    src/unnamed/part_001 lines 1-243    sendWS + pending map,    *)
(*            ping, exponential reconnect back-off                         *)
(*   SpecIdx  src/index.js                        RobustcTraderClient      *)
(*   SpecE    src/unnamed/part_002 lines 565-720  once('message') auth     *)
(*   SpecG    src/unnamed/part_003 lines 1-160    per-order once listener  *)
(*   SpecAIdx part_001 or index.js; FairSpecG: SpecG with timers firing    *)
(*   SpecTok  the token code alone: SmartTokenManager of index.js,         *)
(*            refreshToken of part_001 and of part_003 lines 192-229       *)
(*   SpecIdxRetry  index.js after some failed connection attempts          *)
(*   SpecIdxLog    index.js, keeping the log line of every typed message   *)
(*   SpecIdxStop   index.js with disconnect() called at some point         *)
(*   SpecC    src/unnamed/part_002 lines 139-326  the handshake of         *)
(*            openSocket: sendWS with an 8 s timeout, reconnect after 5 s  *)
(*                                                                         *)
(* Sockets are numbered in creation order; sock[s] is the readyState of    *)
(* the s-th WebSocket object and ws is the module-level handle.  Timers    *)
(* carry no clock: an armed timer may fire at any later step (an order     *)
(* timeout of index.js only after the millisecond clock has advanced).     *)
(* ws.send on a socket that is not OPEN transmits nothing.                 *)
(***************************************************************************)
EXTENDS Integers, Sequences, FiniteSets, TLC

\* ---------------------------------------------------------------- bounds
MaxSock    == 2     \* WebSocket objects created in one run
MaxReq     == 4     \* correlated requests (sendWS calls / orders) in one run
MaxReplies == 1     \* replies the gateway sends to one order of part_002, part_003
MaxClock   == 2     \* milliseconds Date.now() advances in one run
MaxOrders  == 2     \* orders accepted in one run of index.js, part_002, part_003
MaxFetches == 3     \* requests to the token endpoint in one run
MaxPrior   == 9     \* failed connection attempts of index.js before the run

\* ------------------------------------------------------------- constants
InitialDelay         == 5000
MaxDelay             == 60000
maxReconnectAttempts == 10
Idx_BaseDelay        == 5000
Idx_MaxBackoff       == 60000
Tok_maxRetries       == 3
Tok_BaseBackoff      == 60000
Tok_MaxBackoff       == 300000
R_Wait429            == 30000
R_WaitError          == 60000
R_DefaultExpires     == 900
Idx_DefaultExpires   == 2628000
Idx_RefreshMargin    == 259200
Idx_ValidFor         == 3600
Idx_minTimeout       == 3600
Idx_maxTimeout       == 2332800
Node_MaxTimeout      == 2147483647

VARIABLES
  variant,         \* which variant of index.js runs
  started,         \* boot has opened the first socket
  sock,            \* sock[s]: readyState of the s-th WebSocket created
  ws,              \* the socket handle (0: undefined / null)
  socketReady,     \* part_001, part_003: let socketReady
  reconnectDelay,  \* part_001: let reconnectDelay
  pingTimer,       \* part_001: let pingTimer (TRUE: interval armed)
  pending,         \* part_001: const pending (its key set)
  reqs,            \* every correlated request / order made so far
  timers,          \* outstanding setTimeout(openSocket, d): the delays d
  httpNow,         \* status POST /order answered at once in this step (0: none)
  isAuthenticated,     \* index.js: this.isAuthenticated
  heartbeatInterval,   \* index.js: this.heartbeatInterval (TRUE: armed)
  reconnectTimeout,    \* index.js: this.reconnectTimeout (0: null, else delay)
  connectionAttempts,  \* index.js: this.connectionAttempts
  messageHandlers,     \* index.js: this.messageHandlers, clientMsgId -> request
  now,                 \* Date.now()
  authWait,            \* index.js: authenticate* calls awaiting getValidToken()
  inflight,            \* inflight[s]: auth requests on connection s not yet answered
  first,               \* part_002: first[s], the once('message') listener of s
  alive,               \* the Node process has not died of an uncaught exception
  accessToken,     \* the stored access token: 0 none, k the k-th one obtained
  fresh,           \* index.js: Date.now() < this.expiryTime - 3600000
  isRefreshing,    \* index.js: this.isRefreshing
  retryCount,      \* index.js: this.retryCount
  refreshTimeout,  \* index.js: this.refreshTimeout (0: none, else its delay in s)
  tokTimers,       \* outstanding setTimeout(refresh..., d) of the token code
  fetches,         \* requests to the token endpoint not yet answered
  nfetch,          \* requests to the token endpoint made so far
  tokPc,           \* where the running refreshToken / refreshAccessToken call is
  callers,         \* the calls awaiting a token: authenticateApplication / Account
  authSent,        \* tokens carried by the auth messages sent so far
  propagated,      \* errors the token code has thrown to an awaiting caller
  retry,           \* the last retry: what failed and how long after it was made
  currentRefresh,  \* the stored refresh token: 0 the configured one, k the k-th issued
  sentRefresh,     \* the refresh_token of the last request to the token endpoint
  lastResp,        \* access and refresh token of the endpoint's last 2xx answer
  wsOut,           \* the new-order message POST /order sends in this step
  msgLog,          \* index.js: the console.log of handleMessage is kept for
                   \* NEW_ORDER_RES / ERROR_RES messages too (fixed per behaviour)
  stopped,         \* index.js: disconnect() has been called
  pendingRefreshToken, \* index.js: tokenManager.pendingRefreshToken (0: null)
  tokenUpdateKey,      \* index.js: process.env.TOKEN_UPDATE_KEY
  tokenUpdate          \* the last answer of GET /token-update and the key it was given

vars == <<variant, started, sock, ws, socketReady, reconnectDelay, pingTimer,
          pending, reqs, timers, httpNow, isAuthenticated, heartbeatInterval,
          reconnectTimeout, connectionAttempts, messageHandlers, now, authWait,
          inflight, first, alive, accessToken, fresh, isRefreshing, retryCount,
          refreshTimeout, tokTimers, fetches, nfetch, tokPc, callers, authSent,
          propagated, retry, currentRefresh, sentRefresh, lastResp, wsOut,
          msgLog, stopped, pendingRefreshToken, tokenUpdateKey, tokenUpdate>>

\* the token code's state, and the connection code's
Tok_vars == <<accessToken, fresh, isRefreshing, retryCount, refreshTimeout,
              tokTimers, fetches, nfetch, tokPc, callers, authSent, propagated,
              retry, currentRefresh, sentRefresh, lastResp, pendingRefreshToken>>
Tok_rest == <<variant, sock, ws, socketReady, reconnectDelay, pingTimer, pending,
              reqs, timers, httpNow, isAuthenticated, heartbeatInterval,
              reconnectTimeout, connectionAttempts, messageHandlers, now,
              authWait, inflight, first, alive, wsOut, msgLog, stopped,
              tokenUpdateKey, tokenUpdate>>

\* what each variant's handlers never touch
A_rest   == <<variant, isAuthenticated, heartbeatInterval, reconnectTimeout,
              connectionAttempts, messageHandlers, now, authWait, inflight, first,
              alive, Tok_vars, msgLog, stopped,
              tokenUpdateKey, tokenUpdate>>
Idx_rest == <<variant, socketReady, reconnectDelay, pingTimer, pending, timers, first,
              alive, Tok_vars, wsOut, msgLog, stopped,
              tokenUpdateKey, tokenUpdate>>
E_rest   == <<variant, socketReady, reconnectDelay, pingTimer, isAuthenticated,
              heartbeatInterval, reconnectTimeout, connectionAttempts,
              messageHandlers, now, authWait, Tok_vars, wsOut, msgLog, stopped,
              tokenUpdateKey, tokenUpdate>>
G_rest   == <<variant, reconnectDelay, pingTimer, isAuthenticated, heartbeatInterval,
              reconnectTimeout, connectionAttempts, messageHandlers, now, authWait,
              first, alive, Tok_vars, wsOut, msgLog, stopped,
              tokenUpdateKey, tokenUpdate>>

Vc_rest  == <<variant, reconnectDelay, pingTimer, httpNow, isAuthenticated,
              heartbeatInterval, reconnectTimeout, connectionAttempts,
              messageHandlers, now, authWait, inflight, first, alive, Tok_vars,
              wsOut, msgLog, stopped,
              tokenUpdateKey, tokenUpdate>>

Socks  == 1..MaxSock
Ids    == 1..Len(reqs)
Live   == {"connecting", "open", "closing"}

Min(a, b) == IF a < b THEN a ELSE b

\* the next WebSocket object `new WebSocket(WS_HOST)` creates
NewSock == CHOOSE s \in Socks : sock[s] = "none" /\ \A t \in 1..(s-1) : sock[t] # "none"
CanOpen == \E s \in Socks : sock[s] = "none"

\* ws.close(): OPEN or CONNECTING becomes CLOSING, the close event follows
WsClose(sk, h) ==
  IF h # 0 /\ sk[h] \in {"connecting", "open"} THEN [sk EXCEPT ![h] = "closing"] ELSE sk

\* remove the j-th element of a sequence
Drop(q, j) == [k \in 1..(Len(q) - 1) |-> IF k < j THEN q[k] ELSE q[k + 1]]

\* what a new-order message says of the order kind and price (none when no
\* order is sent)
NoMsg == [orderType |-> "", limitPrice |-> 0]

\* A correlated request: the promise sendWS returns, its pending entry and
\* its timeout.  settles counts calls of resolve/reject, removed counts
\* deletions of its key from the pending map.
NewReq(kind, cid, h, sk, timer) ==
  [kind    |-> kind,
   cid     |-> cid,
   sock    |-> h,
   sent    |-> (h # 0 /\ sk[h] = "open"),
   st      |-> "pending",
   reply   |-> "none",
   settles |-> 0,
   removed |-> 0,
   timer   |-> timer,
   nrep    |-> 0,
   http    |-> 0,
   orderId |-> 0]

\* the token code's call is idle, asleep for a delay, awaiting the token
\* endpoint's answer, or awaiting updateFlySecret; cause and acc carry what
\* failed and how long ago, exp the expiresIn of the answer being handled
Idle    == [at |-> "idle", delay |-> 0, cause |-> "none", acc |-> 0, exp |-> 0]
Callers == {"app", "acct"}
\* a call's position, and the stored token it saw when it was made
Waiting(pc, tok) == [pc |-> pc, seen |-> tok]

\* the state after the module (or the constructor) has run
\* an absent header, query parameter or environment variable
Undefined == "undefined"

\* before any GET /token-update
NoUpdate == [status |-> 0, token |-> 0, key |-> Undefined]

StartConn ==
  /\ started = FALSE
  /\ reconnectTimeout = 0
  /\ connectionAttempts = 0
  /\ authWait = [app |-> 0, acct |-> 0]

StartRest ==
  /\ sock = [s \in Socks |-> "none"]
  /\ ws = 0
  /\ socketReady = FALSE
  /\ reconnectDelay = InitialDelay
  /\ pingTimer = FALSE
  /\ pending = {}
  /\ reqs = << >>
  /\ timers = << >>
  /\ httpNow = 0
  /\ isAuthenticated = FALSE
  /\ heartbeatInterval = FALSE
  /\ messageHandlers = << >>
  /\ now = 1
  /\ inflight = [s \in Socks |-> {}]
  /\ first = [s \in Socks |-> FALSE]
  /\ alive = TRUE
  /\ accessToken = 0
  /\ fresh = FALSE
  /\ isRefreshing = FALSE
  /\ retryCount = 0
  /\ refreshTimeout = 0
  /\ tokTimers = << >>
  /\ fetches = 0
  /\ nfetch = 0
  /\ tokPc = Idle
  /\ callers = [c \in Callers |-> Waiting("idle", 0)]
  /\ authSent = {}
  /\ propagated = {}
  /\ retry = [cause |-> "none", gap |-> 0]
  /\ currentRefresh = 0
  /\ sentRefresh = 0
  /\ lastResp = [at |-> 0, rt |-> 0]
  /\ wsOut = NoMsg
  /\ stopped = FALSE
  /\ pendingRefreshToken = 0
  /\ tokenUpdate = NoUpdate

Start == StartConn /\ StartRest /\ msgLog = FALSE /\ tokenUpdateKey = Undefined

\* one behaviour runs one variant
Init    == variant \in {"A", "Idx", "E", "G"} /\ Start
InitA   == variant = "A" /\ Start
InitIdx == variant = "Idx" /\ Start
InitE   == variant = "E" /\ Start
InitG   == variant = "G" /\ Start
InitAIdx == variant \in {"A", "Idx"} /\ Start
InitC   == variant = "C" /\ Start

\* ------------------------------------------------------- promise helpers
\* resolve(m) / reject(err) on request r: only the first call settles it
Settle(r, how, e) ==
  [r EXCEPT !.st      = IF r.st = "pending" THEN how ELSE @,
            !.reply   = IF r.st = "pending" /\ how = "resolved" THEN e ELSE @,
            !.settles = @ + 1]

\* payloads of a reply: "ok" {order: {id}, executionType} (an execution
\* event), "flat" {orderId} (a new-order response), "err" {errorCode},
\* "odd" (none of order, orderId, errorCode: some other message echoing
\* the clientMsgId)
A_Payloads == {"ok", "flat", "err", "odd"}

\* exec.order?.id of a reply to request `from` (0: undefined)
A_orderIdOf(e, from) == IF e = "ok" THEN from ELSE 0

\* POST /order (part_001) once `await sendWS(msg, 15_000)` has settled
\* (r0: the request before, r1: after the settling call; from: the request
\* whose reply the message is): a reply without payload.errorCode ->
\* 200 {orderId: exec.order?.id, status: exec.executionType}; a reply with
\* errorCode, or a rejection -> 400
A_orderHttp(r0, r1, from) ==
  IF r0.kind # "order" \/ r0.st # "pending" THEN r1
  ELSE IF r1.st = "resolved" /\ r1.reply # "err"
       THEN [r1 EXCEPT !.http = 200, !.orderId = A_orderIdOf(r1.reply, from)]
       ELSE [r1 EXCEPT !.http = 400]

\* ================================================================ SpecA
\* src/unnamed/part_001, lines 1-243

\* sendWS(msg, timeout): fresh clientMsgId, arm the timeout, pending.set,
\* ws.send
A_sendWS(rq, kind, sk, h) == Append(rq, NewReq(kind, Len(rq) + 1, h, sk, TRUE))

\* a message handler that forgets clearTimeout: the timeout stays armed
A_clearTimeout_skipped(r) == r

\* clearTimeout(timeoutId) in the message and close handlers
A_clearTimeout(r) == [r EXCEPT !.timer = FALSE]

\* a timeout callback that forgets pending.delete: the entry stays
\* POST /order, catch (err): res.status(400).json({error}); the order is
\* not handed to sendWS again
A_catch_resend(rq, i) ==
  IF rq[i].kind = "order" THEN A_sendWS(rq, "order", sock, ws) ELSE rq

A_catch(rq, i) == rq

\* stopPing(): clearInterval(pingTimer)
A_stopPing(p) == FALSE

A_timeoutDelete_kept(pd, i) == pd

\* pending.delete(id) in the timeout callback of sendWS
A_timeoutDelete(pd, i) == pd \ {i}

\* the entries the close handler rejects and clears: all of pending
A_closeDrain(pd) == pd

\* openSocket(): socketReady = false; ws = new WebSocket(WS_HOST)
A_openSocket ==
  /\ CanOpen
  /\ socketReady' = FALSE
  /\ ws' = NewSock
  /\ sock' = [sock EXCEPT ![NewSock] = "connecting"]

\* boot: await refreshToken(); openSocket()
A_boot ==
  /\ ~started
  /\ started' = TRUE
  /\ A_openSocket
  /\ UNCHANGED <<reconnectDelay, pingTimer, pending, reqs, timers>>
  /\ httpNow' = 0
  /\ wsOut' = NoMsg
  /\ UNCHANGED A_rest

\* ws.on('open'): sendWS(APP-AUTH) and await its reply
A_onOpen(s) ==
  /\ sock[s] = "connecting"
  /\ Len(reqs) < MaxReq
  /\ LET sk == [sock EXCEPT ![s] = "open"] IN
       /\ sock' = sk
       /\ reqs' = A_sendWS(reqs, "app", sk, ws)
       /\ pending' = pending \cup {Len(reqs) + 1}
  /\ UNCHANGED <<started, ws, socketReady, reconnectDelay, pingTimer, timers>>
  /\ httpNow' = 0
  /\ wsOut' = NoMsg
  /\ UNCHANGED A_rest

\* ws.on('message') for a message whose clientMsgId is a key of pending:
\* clearTimeout, pending.delete, resolve(m); then the awaiting code runs:
\*   APP-AUTH reply      -> sendWS(ACCOUNT-AUTH)   (payload not inspected)
\*   ACCOUNT-AUTH reply  -> socketReady = true, reset back-off, startPing
\*   order reply         -> HTTP response
A_dispatch(s, i, e) ==
  /\ i \in pending
  /\ LET r  == reqs[i]
         r1 == [A_clearTimeout(A_orderHttp(r, Settle(r, "resolved", e), i))
                  EXCEPT !.removed = @ + 1, !.nrep = 1]
         rq == [reqs EXCEPT ![i] = r1]
     IN
       CASE r.kind = "app" ->
              /\ Len(reqs) < MaxReq
              /\ reqs' = A_sendWS(rq, "acct", sock, ws)
              /\ pending' = (pending \ {i}) \cup {Len(reqs) + 1}
              /\ UNCHANGED <<socketReady, reconnectDelay, pingTimer>>
         [] r.kind = "acct" ->
              /\ reqs' = rq
              /\ pending' = pending \ {i}
              /\ socketReady' = TRUE
              /\ reconnectDelay' = InitialDelay
              /\ pingTimer' = TRUE
         [] OTHER ->
              /\ reqs' = rq
              /\ pending' = pending \ {i}
              /\ UNCHANGED <<socketReady, reconnectDelay, pingTimer>>
  /\ UNCHANGED <<started, sock, ws, timers>>
  /\ httpNow' = 0
  /\ wsOut' = NoMsg
  /\ UNCHANGED A_rest

\* the same message looked up without the pending.has(clientMsgId) test:
\* the request it names is resolved whether or not it is still pending
A_unsolicited_found(s, i) ==
  /\ i \notin pending
  /\ i # 0
  /\ reqs' = [reqs EXCEPT ![i] = [A_clearTimeout(Settle(@, "resolved", "ok"))
                                    EXCEPT !.nrep = 1]]
  /\ UNCHANGED <<started, sock, ws, socketReady, reconnectDelay, pingTimer, pending,
                 timers>>
  /\ httpNow' = 0
  /\ wsOut' = NoMsg
  /\ UNCHANGED A_rest

\* ws.on('message') for any other message (no clientMsgId, or one that is
\* not a key of pending): ping reply, execution event, error: logged only
A_unsolicited(s, i) ==
  /\ i \notin pending
  /\ reqs' = IF i = 0 THEN reqs ELSE [reqs EXCEPT ![i].nrep = 1]
  /\ UNCHANGED <<started, sock, ws, socketReady, reconnectDelay, pingTimer, pending,
                 timers>>
  /\ httpNow' = 0
  /\ wsOut' = NoMsg
  /\ UNCHANGED A_rest

\* The gateway's messages on socket s: a reply echoes the clientMsgId of a
\* request it received on this connection, with or without an error
\* payload (an order's success reply in either shape, or some other
\* message); i = 0 is a message with no clientMsgId.
A_onMessage(s, i, e) ==
  /\ sock[s] \in {"open", "closing"}
  /\ i # 0 => reqs[i].sent /\ reqs[i].sock = s
  /\ e \in {"flat", "odd"} => i # 0 /\ reqs[i].kind = "order"
  /\ \/ A_dispatch(s, i, e)
     \/ A_unsolicited(s, i)

\* the timeout armed by sendWS: pending.delete(id); reject(timeout).
\* A rejected handshake step lands in the open handler's catch: ws.close()
A_timeout(i) ==
  /\ reqs[i].timer
  /\ LET r == reqs[i] IN
       /\ reqs' = A_catch([reqs EXCEPT ![i] =
                     [A_orderHttp(r, Settle(r, "timeout", "none"), 0)
                        EXCEPT !.timer = FALSE,
                               !.removed = IF i \in pending /\ i \notin A_timeoutDelete(pending, i)
                                           THEN @ + 1 ELSE @]], i)
       /\ pending' = A_timeoutDelete(pending, i)
       /\ sock' = IF r.kind \in {"app", "acct"} /\ r.st = "pending"
                  THEN WsClose(sock, ws) ELSE sock
  /\ UNCHANGED <<started, ws, socketReady, reconnectDelay, pingTimer, timers>>
  /\ httpNow' = 0
  /\ wsOut' = NoMsg
  /\ UNCHANGED A_rest

\* ws.on('close'): stopPing; clearTimeout + reject('WS closed') for every
\* pending entry; pending.clear(); setTimeout(openSocket, reconnectDelay);
\* reconnectDelay doubles up to 60 s.  Rejected handshake steps reach the
\* open handler's catch (ws.close()), rejected orders answer 400.
\* (ws.on('error') only logs; ws emits close after it.)
A_onClose(s) ==
  /\ sock[s] \in Live
  /\ LET sk == [sock EXCEPT ![s] = "closed"]
         dr == A_closeDrain(pending)
         hs == \E i \in dr : reqs[i].kind \in {"app", "acct"} /\ reqs[i].st = "pending"
     IN
       /\ sock' = IF hs THEN WsClose(sk, ws) ELSE sk
       /\ reqs' = [i \in Ids |->
                     IF i \in dr
                     THEN [A_clearTimeout(A_orderHttp(reqs[i], Settle(reqs[i], "closed", "none"), 0))
                             EXCEPT !.removed = @ + 1]
                     ELSE reqs[i]]
       /\ pending' = pending \ dr
  /\ pingTimer' = A_stopPing(pingTimer)
  /\ timers' = Append(timers, reconnectDelay)
  /\ reconnectDelay' = Min(reconnectDelay * 2, MaxDelay)
  /\ UNCHANGED <<started, ws, socketReady>>
  /\ httpNow' = 0
  /\ wsOut' = NoMsg
  /\ UNCHANGED A_rest

\* a reconnect timer fires: openSocket()
A_reconnect(j) ==
  /\ j \in 1..Len(timers)
  /\ timers' = Drop(timers, j)
  /\ A_openSocket
  /\ UNCHANGED <<started, reconnectDelay, pingTimer, pending, reqs>>
  /\ httpNow' = 0
  /\ wsOut' = NoMsg
  /\ UNCHANGED A_rest

\* POST /order bodies: the three mandatory fields, present or missing,
\* the order kind (MARKET when not given) and the limit price (0: none)
A_Bodies ==
  {[symbolId |-> 1, side |-> "BUY", volume |-> 100000, type |-> "MARKET", limitPrice |-> 0],
   [symbolId |-> 0, side |-> "BUY", volume |-> 100000, type |-> "MARKET", limitPrice |-> 0],
   [symbolId |-> 1, side |-> "",    volume |-> 100000, type |-> "MARKET", limitPrice |-> 0],
   [symbolId |-> 1, side |-> "BUY", volume |-> 0,      type |-> "MARKET", limitPrice |-> 0],
   [symbolId |-> 1, side |-> "BUY", volume |-> 100000, type |-> "LIMIT",  limitPrice |-> 0]}

\* the new-order message built from the body: orderType, and limitPrice
\* if the body has one
A_orderMsg(b) == [orderType |-> b.type, limitPrice |-> b.limitPrice]

\* app.post('/order'): 503 unless socketReady; 400 unless symbolId, side and
\* volume are given; otherwise sendWS(msg, 15_000)
A_postOrder(b) ==
  /\ CASE ~socketReady ->
            /\ httpNow' = 503
            /\ wsOut' = NoMsg
            /\ UNCHANGED <<pending, reqs>>
       [] socketReady /\ (b.symbolId = 0 \/ b.side = "" \/ b.volume = 0) ->
            /\ httpNow' = 400
            /\ wsOut' = NoMsg
            /\ UNCHANGED <<pending, reqs>>
       [] OTHER ->
            /\ Len(reqs) < MaxReq
            /\ reqs' = A_sendWS(reqs, "order", sock, ws)
            /\ pending' = pending \cup {Len(reqs) + 1}
            /\ httpNow' = 0
            /\ wsOut' = A_orderMsg(b)
  /\ UNCHANGED <<started, sock, ws, socketReady, reconnectDelay, pingTimer, timers>>
  /\ UNCHANGED A_rest

NextA ==
  \/ A_boot
  \/ \E s \in Socks : A_onOpen(s)
  \/ \E s \in Socks, i \in 0..Len(reqs), e \in A_Payloads : A_onMessage(s, i, e)
  \/ \E i \in Ids : A_timeout(i)
  \/ \E s \in Socks : A_onClose(s)
  \/ \E j \in 1..Len(timers) : A_reconnect(j)
  \/ \E b \in A_Bodies : A_postOrder(b)

SpecA == InitA /\ [][NextA]_vars

\* ============================================================== SpecIdx
\* src/index.js: SmartTokenManager (as the outcome of getValidToken()) and
\* RobustcTraderClient

\* messageHandlers as a function on the clientMsgIds it holds
Idx_has(mh, c)    == c \in DOMAIN mh
Idx_set(mh, c, i) == [k \in (DOMAIN mh) \cup {c} |-> IF k = c THEN i ELSE mh[k]]
Idx_delete(mh, c) == [k \in (DOMAIN mh) \ {c} |-> mh[k]]

\* 2^n
RECURSIVE Pow2(_)
Pow2(n) == IF n <= 0 THEN 1 ELSE 2 * Pow2(n - 1)

\* Math.min(5000 * Math.pow(2, connectionAttempts - 1), 60000)
Idx_backoff(ca) == IF ca = 0 THEN Idx_BaseDelay \div 2
                   ELSE Min(Idx_BaseDelay * Pow2(ca - 1), Idx_MaxBackoff)

\* scheduleReconnect(): nothing while a timer is outstanding
Idx_scheduleReconnect(rt, ca) == IF rt # 0 THEN rt ELSE Idx_backoff(ca)

\* sendMessage(message): sends if this.ws is OPEN
Idx_canSend(sk, h) == h # 0 /\ sk[h] = "open"

\* isReady()
Idx_isReady == ws # 0 /\ sock[ws] = "open" /\ isAuthenticated

\* connect(): gives up after maxReconnectAttempts, else a new WebSocket
Idx_connect ==
  IF connectionAttempts >= maxReconnectAttempts
  THEN UNCHANGED <<connectionAttempts, ws, sock>>
  ELSE /\ CanOpen
       /\ connectionAttempts' = connectionAttempts + 1
       /\ ws' = NewSock
       /\ sock' = [sock EXCEPT ![NewSock] = "connecting"]

\* startup(): app.listen; await ctraderClient.connect()
Idx_boot ==
  /\ ~started
  /\ started' = TRUE
  /\ Idx_connect
  /\ UNCHANGED <<reqs, isAuthenticated, heartbeatInterval, reconnectTimeout,
                 messageHandlers, now, authWait, inflight>>
  /\ httpNow' = 0
  /\ UNCHANGED Idx_rest

\* onOpen(): connectionAttempts = 0; authenticateApplication() starts and
\* awaits tokenManager.getValidToken()
Idx_onOpen(s) ==
  /\ sock[s] = "connecting"
  /\ sock' = [sock EXCEPT ![s] = "open"]
  /\ connectionAttempts' = 0
  /\ authWait' = [authWait EXCEPT !.app = @ + 1]
  /\ UNCHANGED <<started, ws, reqs, isAuthenticated, heartbeatInterval,
                 reconnectTimeout, messageHandlers, now, inflight>>
  /\ httpNow' = 0
  /\ UNCHANGED Idx_rest

\* authenticateApplication() after the await: with a token, sendMessage of
\* the application auth request on this.ws; on ACCESS_DENIED nothing; on
\* any other token error scheduleReconnect()
Idx_authenticateApplication(out) ==
  /\ authWait.app > 0
  /\ authWait' = [authWait EXCEPT !.app = @ - 1]
  /\ CASE out = "token" ->
            /\ inflight' = IF Idx_canSend(sock, ws)
                           THEN [inflight EXCEPT ![ws] = @ \cup {"app"}] ELSE inflight
            /\ UNCHANGED reconnectTimeout
       [] out = "denied" -> UNCHANGED <<inflight, reconnectTimeout>>
       [] OTHER ->
            /\ reconnectTimeout' = Idx_scheduleReconnect(reconnectTimeout, connectionAttempts)
            /\ UNCHANGED inflight
  /\ UNCHANGED <<started, sock, ws, reqs, isAuthenticated, heartbeatInterval,
                 connectionAttempts, messageHandlers, now>>
  /\ httpNow' = 0
  /\ UNCHANGED Idx_rest

\* authenticateAccount() after the await: with a token, sendMessage of the
\* account auth request on this.ws; a token error is only logged
Idx_authenticateAccount(out) ==
  /\ authWait.acct > 0
  /\ authWait' = [authWait EXCEPT !.acct = @ - 1]
  /\ inflight' = IF out = "token" /\ Idx_canSend(sock, ws)
                 THEN [inflight EXCEPT ![ws] = @ \cup {"acct"}] ELSE inflight
  /\ UNCHANGED <<started, sock, ws, reqs, isAuthenticated, heartbeatInterval,
                 reconnectTimeout, connectionAttempts, messageHandlers, now>>
  /\ httpNow' = 0
  /\ UNCHANGED Idx_rest

\* the order requests a message with clientMsgId c on socket s answers
Idx_answers(s, c) ==
  {i \in Ids : reqs[i].cid = c /\ reqs[i].sock = s /\ reqs[i].sent}

\* the handler sendOrder registers, run on a response: clearTimeout;
\* reject on payload.errorCode, else resolve(payload); the POST handler
\* then answers 200 {result} or 400 {error}
Idx_handler(r, e, c) ==
  LET r1 == Settle(r, IF e = "err" THEN "failed" ELSE "resolved", e) IN
    [(IF r.st # "pending" THEN r1
      ELSE IF e = "ok" THEN [r1 EXCEPT !.http = 200, !.orderId = c]
      ELSE [r1 EXCEPT !.http = 400])
     EXCEPT !.timer = FALSE]

\* onMessage / handleMessage(message), by payloadType:
\*   APPLICATION_AUTH_RES  no errorCode -> authenticateAccount()
\*   ACCOUNT_AUTH_RES      no errorCode -> isAuthenticated, startHeartbeat
\*   NEW_ORDER_RES, ERROR_RES, HEARTBEAT_EVENT -> logged / timestamp only
\*   default -> messageHandlers.get(clientMsgId): run it and delete it
\* The gateway answers an auth request it got on s once, and echoes the
\* clientMsgId of an order it got on s; nrep marks the orders for which
\* such a message has reached the messageHandlers lookup or, under msgLog,
\* has been logged by handleMessage (405-407).
Idx_onMessage(s, pt, c, e) ==
  /\ sock[s] \in {"open", "closing"}
  /\ pt = "appRes"  => c = 0 /\ "app" \in inflight[s]
  /\ pt = "acctRes" => c = 0 /\ "acct" \in inflight[s]
  /\ pt \in {"orderRes", "errorRes", "other"} => c # 0 /\ Idx_answers(s, c) # {}
  /\ inflight' = CASE pt = "appRes"  -> [inflight EXCEPT ![s] = @ \ {"app"}]
                   [] pt = "acctRes" -> [inflight EXCEPT ![s] = @ \ {"acct"}]
                   [] OTHER -> inflight
  /\ authWait' = IF pt = "appRes" /\ e = "ok"
                 THEN [authWait EXCEPT !.acct = @ + 1] ELSE authWait
  /\ isAuthenticated' = IF pt = "acctRes" /\ e = "ok" THEN TRUE ELSE isAuthenticated
  /\ heartbeatInterval' = IF pt = "acctRes" /\ e = "ok" THEN TRUE ELSE heartbeatInterval
  /\ LET hit == pt = "other" /\ Idx_has(messageHandlers, c)
         h   == IF hit THEN messageHandlers[c] ELSE 0
     IN
       /\ messageHandlers' = IF hit THEN Idx_delete(messageHandlers, c) ELSE messageHandlers
       /\ reqs' = [i \in Ids |->
                     LET r0 == IF i = h THEN [Idx_handler(reqs[i], e, c) EXCEPT !.removed = @ + 1]
                               ELSE reqs[i]
                     IN IF (pt = "other" \/ (msgLog /\ pt \in {"orderRes", "errorRes"}))
                           /\ i \in Idx_answers(s, c)
                        THEN [r0 EXCEPT !.nrep = 1] ELSE r0]
  /\ UNCHANGED <<started, sock, ws, reconnectTimeout, connectionAttempts, now>>
  /\ httpNow' = 0
  /\ UNCHANGED Idx_rest

\* POST /order bodies (index.js): symbolId, side in {1, 2}, volume, type
Idx_Bodies ==
  {[symbolId |-> 1, side |-> 1, volume |-> 100000, type |-> 1],
   [symbolId |-> 0, side |-> 1, volume |-> 100000, type |-> 1],
   [symbolId |-> 1, side |-> 0, volume |-> 100000, type |-> 1],
   [symbolId |-> 1, side |-> 3, volume |-> 100000, type |-> 1],
   [symbolId |-> 1, side |-> 1, volume |-> 0,      type |-> 1],
   [symbolId |-> 1, side |-> 1, volume |-> 100000, type |-> 4]}

\* the POST /order validation: 400 on a missing symbol, side or volume, on
\* a side other than 1 or 2, on a type other than 1, 2 or 3
Idx_valid(b) ==
  /\ b.symbolId # 0 /\ b.side # 0 /\ b.volume # 0
  /\ b.side \in {1, 2}
  /\ b.type = 0 \/ b.type \in {1, 2, 3}

\* app.post('/order') while not isReady(): 503, before the body is read
Idx_postOrder503 ==
  /\ ~Idx_isReady
  /\ httpNow' = 503
  /\ UNCHANGED <<started, sock, ws, reqs, isAuthenticated, heartbeatInterval,
                 reconnectTimeout, connectionAttempts, messageHandlers, now, authWait,
                 inflight>>
  /\ UNCHANGED Idx_rest

\* app.post('/order') while isReady(), with sendOrder(orderData): 400
\* on a bad body; else clientMsgId = `order_${Date.now()}`, the 15 s timeout
\* is armed, messageHandlers.set(id, handler), sendMessage; if that fails
\* the timeout is cleared, the handler deleted and the promise rejected
Idx_postOrder(b) ==
  /\ Idx_isReady
  /\ CASE ~Idx_valid(b) ->
            /\ httpNow' = 400
            /\ UNCHANGED <<reqs, messageHandlers>>
       [] OTHER ->
            /\ Len(reqs) < MaxOrders
            /\ LET n   == Len(reqs) + 1
                   old == IF Idx_has(messageHandlers, now) THEN messageHandlers[now] ELSE 0
                   rq  == [i \in Ids |-> IF i = old THEN [reqs[i] EXCEPT !.removed = @ + 1]
                                         ELSE reqs[i]]
                   ok  == Idx_canSend(sock, ws)
                   r   == NewReq("order", now, ws, sock, ok)
               IN
                 /\ reqs' = Append(rq, IF ok THEN r
                                       ELSE [Settle(r, "unsent", "none") EXCEPT !.http = 400])
                 /\ messageHandlers' = IF ok THEN Idx_set(messageHandlers, now, n)
                                       ELSE Idx_delete(messageHandlers, now)
            /\ httpNow' = 0
  /\ UNCHANGED <<started, sock, ws, isAuthenticated, heartbeatInterval, reconnectTimeout,
                 connectionAttempts, now, authWait, inflight>>
  /\ UNCHANGED Idx_rest

\* the 15 s timeout of sendOrder: messageHandlers.delete(clientMsgId);
\* reject('Order timeout'); the POST handler answers 400
Idx_timeout(i) ==
  /\ reqs[i].timer
  /\ now > reqs[i].cid
  /\ LET c   == reqs[i].cid
         old == IF Idx_has(messageHandlers, c) THEN messageHandlers[c] ELSE 0
     IN
       /\ messageHandlers' = Idx_delete(messageHandlers, c)
       /\ reqs' = [k \in Ids |->
                     LET r0 == IF k = old THEN [reqs[k] EXCEPT !.removed = @ + 1] ELSE reqs[k]
                     IN IF k = i
                        THEN [(IF r0.st = "pending"
                               THEN [Settle(r0, "timeout", "none") EXCEPT !.http = 400]
                               ELSE Settle(r0, "timeout", "none"))
                              EXCEPT !.timer = FALSE]
                        ELSE r0]
  /\ UNCHANGED <<started, sock, ws, isAuthenticated, heartbeatInterval,
                 reconnectTimeout, connectionAttempts, now, authWait, inflight>>
  /\ httpNow' = 0
  /\ UNCHANGED Idx_rest

\* close codes: 1006 (abnormal closure) and 1008 (policy violation, sent
\* by the gateway in a close frame, so on an established connection)
Idx_CloseCodes == {1006, 1008}

\* onClose(code, reason): isAuthenticated = false; stopHeartbeat(); no
\* reconnect on code 1008 or 4000, else scheduleReconnect()
Idx_onClose(s, code) ==
  /\ sock[s] \in Live
  /\ code = 1008 => sock[s] = "open"
  /\ sock' = [sock EXCEPT ![s] = "closed"]
  /\ isAuthenticated' = FALSE
  /\ heartbeatInterval' = FALSE
  /\ reconnectTimeout' = IF code = 1008 \/ code = 4000 THEN reconnectTimeout
                         ELSE Idx_scheduleReconnect(reconnectTimeout, connectionAttempts)
  /\ inflight' = [inflight EXCEPT ![s] = {}]
  /\ UNCHANGED <<started, ws, reqs, connectionAttempts, messageHandlers, now,
                 authWait>>
  /\ httpNow' = 0
  /\ UNCHANGED Idx_rest

\* the reconnect timer fires: this.reconnectTimeout = null; this.connect()
Idx_reconnect ==
  /\ reconnectTimeout # 0
  /\ reconnectTimeout' = 0
  /\ Idx_connect
  /\ UNCHANGED <<started, reqs, isAuthenticated, heartbeatInterval, messageHandlers,
                 now, authWait, inflight>>
  /\ httpNow' = 0
  /\ UNCHANGED Idx_rest

\* Date.now() moves on to another millisecond (milliseconds in which no
\* order was made are not told apart)
Idx_tick ==
  /\ now < MaxClock
  /\ \E i \in Ids : reqs[i].cid = now
  /\ now' = now + 1
  /\ UNCHANGED <<started, sock, ws, reqs, isAuthenticated, heartbeatInterval,
                 reconnectTimeout, connectionAttempts, messageHandlers, authWait,
                 inflight>>
  /\ httpNow' = 0
  /\ UNCHANGED Idx_rest

NextIdx ==
  \/ Idx_boot
  \/ \E s \in Socks : Idx_onOpen(s)
  \/ \E out \in {"token", "denied", "error"} : Idx_authenticateApplication(out)
  \/ \E out \in {"token", "error"} : Idx_authenticateAccount(out)
  \/ \E s \in Socks, pt \in {"appRes", "acctRes", "orderRes", "errorRes", "other"},
        c \in 0..MaxClock, e \in {"ok", "err"} : Idx_onMessage(s, pt, c, e)
  \/ Idx_postOrder503
  \/ \E b \in Idx_Bodies : Idx_postOrder(b)
  \/ \E i \in Ids : Idx_timeout(i)
  \/ \E s \in Socks, code \in Idx_CloseCodes : Idx_onClose(s, code)
  \/ Idx_reconnect
  \/ Idx_tick

SpecIdx == InitIdx /\ [][NextIdx]_vars

\* index.js with every logged message kept
InitIdxLog ==
  variant = "Idx" /\ StartConn /\ StartRest /\ msgLog = TRUE /\ tokenUpdateKey = Undefined
SpecIdxLog == InitIdxLog /\ [][NextIdx]_vars

\* disconnect(): stopHeartbeat(); the reconnect timer is cleared;
\* this.ws.close(1000, 'Normal closure'); isAuthenticated = false
Idx_disconnect ==
  /\ started /\ ~stopped
  /\ stopped' = TRUE
  /\ heartbeatInterval' = FALSE
  /\ reconnectTimeout' = 0
  /\ sock' = WsClose(sock, ws)
  /\ isAuthenticated' = FALSE
  /\ httpNow' = 0
  /\ UNCHANGED <<started, ws, reqs, connectionAttempts, messageHandlers, now, authWait,
                 inflight>>
  /\ UNCHANGED <<variant, socketReady, reconnectDelay, pingTimer, pending, timers,
                 first, alive, Tok_vars, wsOut, msgLog, tokenUpdateKey, tokenUpdate>>

\* the close event of a socket disconnect() closed carries its code 1000
Idx_onNormalClose(s) ==
  /\ stopped /\ sock[s] = "closing"
  /\ Idx_onClose(s, 1000)

\* index.js with disconnect() called at some point
NextIdxStop ==
  \/ NextIdx
  \/ Idx_disconnect
  \/ \E s \in Socks : Idx_onNormalClose(s)

SpecIdxStop == InitIdx /\ [][NextIdxStop]_vars

\* ================================================================ SpecE
\* src/unnamed/part_002, lines 565-720

\* delays of the two setTimeout(openSocket, ...) calls
E_AuthRetryDelay == 30000
E_CloseDelay     == 5000

\* the per-order listeners attached to socket s that react to a message of
\* payloadType pt (part_002: 2121 / 2122; part_003: NEW_ORDER_RES / ERROR_RES)
Listeners(s, pt) ==
  IF pt \in {"orderRes", "errorRes"} THEN {i \in pending : reqs[i].sock = s} ELSE {}

\* the listener `once` of request r on such a message: the error kind
\* answers 400, the other 200 {orderId: m.payload.orderId}
ListenerReply(r, pt, from) ==
  LET r1 == Settle(r, IF pt = "errorRes" THEN "failed" ELSE "resolved",
                      IF pt = "errorRes" THEN "err" ELSE "ok")
  IN IF pt = "errorRes" THEN [r1 EXCEPT !.http = 400]
     ELSE [r1 EXCEPT !.http = 200, !.orderId = from]

\* the gateway answers, on socket s, an order `from` it received on s
OrderReply(s, from) ==
  /\ from \in Ids
  /\ reqs[from].kind = "order" /\ reqs[from].sent /\ reqs[from].sock = s
  /\ reqs[from].nrep < MaxReplies

\* openSocket(): ws = new WebSocket(WS_HOST) with its once('message')
E_openSocket ==
  /\ CanOpen
  /\ ws' = NewSock
  /\ sock' = [sock EXCEPT ![NewSock] = "connecting"]
  /\ first' = [first EXCEPT ![NewSock] = TRUE]

\* boot: await refreshToken(); openSocket()
E_boot ==
  /\ alive /\ ~started
  /\ started' = TRUE
  /\ E_openSocket
  /\ UNCHANGED <<pending, reqs, timers, inflight, alive>>
  /\ httpNow' = 0
  /\ UNCHANGED E_rest

\* ws.on('open') of socket s: ws.send(ApplicationAuthReq) on the handle ws;
\* ws.send throws while that socket is CONNECTING (uncaught: the process
\* dies) and transmits nothing once it is CLOSING or CLOSED
E_onOpen(s) ==
  /\ alive
  /\ sock[s] = "connecting"
  /\ sock' = [sock EXCEPT ![s] = "open"]
  /\ alive' = (s = ws \/ sock[ws] # "connecting")
  /\ inflight' = IF s = ws \/ sock[ws] = "open"
                 THEN [inflight EXCEPT ![ws] = @ \cup {"app"}] ELSE inflight
  /\ UNCHANGED <<started, ws, pending, reqs, timers, first>>
  /\ httpNow' = 0
  /\ UNCHANGED E_rest

\* a message on socket s.  The once('message') listener takes the first
\* one: unless it is 2101 with payload.status 'OK', setTimeout(openSocket,
\* 30 s).  Every order listener on s reacts to 2121 / 2122: ws.off on the
\* handle ws, then the HTTP answer (a second answer on one response throws).
\* The gateway answers the auth request once, and an order it received.
E_onMessage(s, pt, from) ==
  /\ alive
  /\ sock[s] \in {"open", "closing"}
  /\ pt \in {"authOk", "authFail"} => from = 0 /\ "app" \in inflight[s]
  /\ pt \in {"orderRes", "errorRes"} => OrderReply(s, from)
  /\ inflight' = IF from = 0 THEN [inflight EXCEPT ![s] = @ \ {"app"}] ELSE inflight
  /\ first' = [first EXCEPT ![s] = FALSE]
  /\ timers' = IF first[s] /\ pt # "authOk" THEN Append(timers, E_AuthRetryDelay) ELSE timers
  /\ LET ls == Listeners(s, pt) IN
       /\ reqs' = [i \in Ids |->
                     LET r0 == IF i \in ls
                               THEN [ListenerReply(reqs[i], pt, from)
                                       EXCEPT !.removed = IF s = ws THEN @ + 1 ELSE @]
                               ELSE reqs[i]
                     IN IF i = from THEN [r0 EXCEPT !.nrep = @ + 1] ELSE r0]
       /\ pending' = IF s = ws THEN pending \ ls ELSE pending
       /\ alive' = \A i \in ls : reqs[i].http = 0
  /\ UNCHANGED <<started, sock, ws>>
  /\ httpNow' = 0
  /\ UNCHANGED E_rest

\* ws.on('close'): setTimeout(openSocket, 5 s)
E_onClose(s) ==
  /\ alive
  /\ sock[s] \in Live
  /\ sock' = [sock EXCEPT ![s] = "closed"]
  /\ timers' = Append(timers, E_CloseDelay)
  /\ inflight' = [inflight EXCEPT ![s] = {}]
  /\ UNCHANGED <<started, ws, pending, reqs, first, alive>>
  /\ httpNow' = 0
  /\ UNCHANGED E_rest

\* a setTimeout(openSocket, ...) fires
E_reconnect(j) ==
  /\ alive
  /\ j \in 1..Len(timers)
  /\ timers' = Drop(timers, j)
  /\ E_openSocket
  /\ UNCHANGED <<started, pending, reqs, inflight, alive>>
  /\ httpNow' = 0
  /\ UNCHANGED E_rest

\* app.post('/order'): 503 unless ws is OPEN; ws.send(msg, cb); cb answers
\* 500 on a send error, else attaches the listener `once` to ws
E_postOrder(err) ==
  /\ alive
  /\ IF ws = 0 \/ sock[ws] # "open"
     THEN /\ httpNow' = 503
          /\ UNCHANGED <<reqs, pending>>
     ELSE /\ Len(reqs) < MaxOrders
          /\ LET r == NewReq("order", Len(reqs) + 1, ws, sock, FALSE) IN
               reqs' = Append(reqs, IF err THEN [Settle(r, "unsent", "none")
                                                   EXCEPT !.http = 500, !.sent = FALSE]
                                    ELSE r)
          /\ pending' = IF err THEN pending ELSE pending \cup {Len(reqs) + 1}
          /\ httpNow' = 0
  /\ UNCHANGED <<started, sock, ws, timers, inflight, first, alive>>
  /\ UNCHANGED E_rest

NextE ==
  \/ E_boot
  \/ \E s \in Socks : E_onOpen(s)
  \/ \E s \in Socks, pt \in {"authOk", "authFail", "orderRes", "errorRes"},
        from \in 0..Len(reqs) : E_onMessage(s, pt, from)
  \/ \E s \in Socks : E_onClose(s)
  \/ \E j \in 1..Len(timers) : E_reconnect(j)
  \/ \E err \in BOOLEAN : E_postOrder(err)

SpecE == InitE /\ [][NextE]_vars

\* ================================================================ SpecG
\* src/unnamed/part_003, lines 1-160

\* delay of setTimeout(openSocket, 5e3)
G_CloseDelay == 5000

\* openSocket(): socketReady = false; ws = new WebSocket(WS_HOST)
G_openSocket ==
  /\ CanOpen
  /\ socketReady' = FALSE
  /\ ws' = NewSock
  /\ sock' = [sock EXCEPT ![NewSock] = "connecting"]

\* boot: await refreshToken(); openSocket()
G_boot ==
  /\ ~started
  /\ started' = TRUE
  /\ G_openSocket
  /\ UNCHANGED <<pending, reqs, timers, inflight>>
  /\ httpNow' = 0
  /\ UNCHANGED G_rest

\* ws.once('open'): ws.send(APP_AUTH_REQ)
G_onOpen(s) ==
  /\ sock[s] = "connecting"
  /\ sock' = [sock EXCEPT ![s] = "open"]
  /\ inflight' = IF s = ws THEN [inflight EXCEPT ![s] = @ \cup {"app"}] ELSE inflight
  /\ UNCHANGED <<started, ws, socketReady, pending, reqs, timers>>
  /\ httpNow' = 0
  /\ UNCHANGED G_rest

\* ws.on('message') of socket s, then the order listeners attached to s:
\*   APP_AUTH_RES     -> ws.send(ACCOUNT_AUTH_REQ)
\*   ACCOUNT_AUTH_RES -> socketReady = true
\*   ERROR_RES        -> logged
\* and every listener `once` on s reacts to NEW_ORDER_RES / ERROR_RES:
\* ws.off('message', once), then 200 {orderId} or 400.
\* The gateway answers each auth request once (with its RES or ERROR_RES),
\* and an order it received.
G_onMessage(s, pt, from) ==
  /\ sock[s] \in {"open", "closing"}
  /\ pt = "appRes"  => from = 0 /\ "app" \in inflight[s]
  /\ pt = "acctRes" => from = 0 /\ "acct" \in inflight[s]
  /\ pt = "orderRes" => OrderReply(s, from)
  /\ pt = "errorRes" => IF from = 0 THEN inflight[s] # {} ELSE OrderReply(s, from)
  /\ inflight' =
       CASE pt = "appRes" ->
              [inflight EXCEPT ![s] = (@ \ {"app"}) \cup
                                      (IF s = ws \/ sock[ws] = "open" THEN {"acct"} ELSE {})]
         [] pt = "acctRes" -> [inflight EXCEPT ![s] = @ \ {"acct"}]
         [] pt = "errorRes" /\ from = 0 -> [inflight EXCEPT ![s] = {}]
         [] OTHER -> inflight
  /\ socketReady' = IF pt = "acctRes" THEN TRUE ELSE socketReady
  /\ LET ls == Listeners(s, pt) IN
       /\ reqs' = [i \in Ids |->
                     LET r0 == IF i \in ls
                               THEN [ListenerReply(reqs[i], pt, from) EXCEPT !.removed = @ + 1]
                               ELSE reqs[i]
                     IN IF i = from THEN [r0 EXCEPT !.nrep = @ + 1] ELSE r0]
       /\ pending' = pending \ ls
  /\ UNCHANGED <<started, sock, ws, timers>>
  /\ httpNow' = 0
  /\ UNCHANGED G_rest

\* ws.on('close'): setTimeout(openSocket, 5e3)
G_onClose(s) ==
  /\ sock[s] \in Live
  /\ sock' = [sock EXCEPT ![s] = "closed"]
  /\ timers' = Append(timers, G_CloseDelay)
  /\ inflight' = [inflight EXCEPT ![s] = {}]
  /\ UNCHANGED <<started, ws, socketReady, pending, reqs>>
  /\ httpNow' = 0
  /\ UNCHANGED G_rest

\* the reconnect timer fires: openSocket()
G_reconnect(j) ==
  /\ j \in 1..Len(timers)
  /\ timers' = Drop(timers, j)
  /\ G_openSocket
  /\ UNCHANGED <<started, pending, reqs, inflight>>
  /\ httpNow' = 0
  /\ UNCHANGED G_rest

\* POST /order bodies: the three mandatory fields, present or missing
G_Bodies ==
  {[symbolId |-> 1, side |-> "BUY", volumeLots |-> 1],
   [symbolId |-> 0, side |-> "BUY", volumeLots |-> 1],
   [symbolId |-> 1, side |-> "",    volumeLots |-> 1],
   [symbolId |-> 1, side |-> "BUY", volumeLots |-> 0]}

\* app.post('/order'): 503 unless socketReady; 400 unless symbolId, side and
\* volumeLots are given; ws.send(msg, cb); cb answers 502 on a send error
\* (the socket is not OPEN), else attaches the listener `once` to ws
G_postOrder(b) ==
  /\ CASE ~socketReady ->
            /\ httpNow' = 503
            /\ UNCHANGED <<pending, reqs>>
       [] socketReady /\ (b.symbolId = 0 \/ b.side = "" \/ b.volumeLots = 0) ->
            /\ httpNow' = 400
            /\ UNCHANGED <<pending, reqs>>
       [] OTHER ->
            /\ Len(reqs) < MaxOrders
            /\ LET r  == NewReq("order", Len(reqs) + 1, ws, sock, FALSE)
                   ok == sock[ws] = "open"
               IN
                 /\ reqs' = Append(reqs, IF ok THEN r
                                         ELSE [Settle(r, "unsent", "none") EXCEPT !.http = 502])
                 /\ pending' = IF ok THEN pending \cup {Len(reqs) + 1} ELSE pending
            /\ httpNow' = 0
  /\ UNCHANGED <<started, sock, ws, socketReady, timers, inflight>>
  /\ UNCHANGED G_rest

NextG ==
  \/ G_boot
  \/ \E s \in Socks : G_onOpen(s)
  \/ \E s \in Socks, pt \in {"appRes", "acctRes", "orderRes", "errorRes"},
        from \in 0..Len(reqs) : G_onMessage(s, pt, from)
  \/ \E s \in Socks : G_onClose(s)
  \/ \E j \in 1..Len(timers) : G_reconnect(j)
  \/ \E b \in G_Bodies : G_postOrder(b)

SpecG == InitG /\ [][NextG]_vars

\* ================================================================ SpecC
\* src/unnamed/part_002, lines 139-326: let ws, socketReady, pending;
\* sendWS and openSocket

\* delay of setTimeout(openSocket, 5_000)
Vc_CloseDelay == 5000

\* sendWS(msg): pending.set(id, {resolve, reject}); ws.send on the
\* module-level ws; the 8 s safety timeout
Vc_sendWS(rq, kind, sk, h) == Append(rq, NewReq(kind, Len(rq) + 1, h, sk, TRUE))

\* openSocket(): socketReady = false; ws = new WebSocket(WS_HOST)
Vc_openSocket ==
  /\ CanOpen
  /\ socketReady' = FALSE
  /\ ws' = NewSock
  /\ sock' = [sock EXCEPT ![NewSock] = "connecting"]

\* boot: await refreshToken(); openSocket()
Vc_boot ==
  /\ ~started
  /\ started' = TRUE
  /\ Vc_openSocket
  /\ UNCHANGED <<pending, reqs, timers>>
  /\ UNCHANGED Vc_rest

\* ws.on('open'): sendWS(APP-AUTH), the head of the promise chain
Vc_onOpen(s) ==
  /\ sock[s] = "connecting"
  /\ Len(reqs) < MaxReq
  /\ LET sk == [sock EXCEPT ![s] = "open"] IN
       /\ sock' = sk
       /\ reqs' = Vc_sendWS(reqs, "app", sk, ws)
       /\ pending' = pending \cup {Len(reqs) + 1}
  /\ UNCHANGED <<started, ws, socketReady, timers>>
  /\ UNCHANGED Vc_rest

\* ws.on('message') for a message whose clientMsgId is a key of pending:
\* resolve(m), pending.delete (the timeout stays armed); then the chain:
\*   APP-AUTH reply      -> sendWS(ACCOUNT-AUTH)
\*   ACCOUNT-AUTH reply  -> sendWS(SUBSCRIBE)
\*   SUBSCRIBE reply     -> socketReady = true
\* Any other message is logged at most.
Vc_onMessage(s, i) ==
  /\ sock[s] \in {"open", "closing"}
  /\ reqs[i].sent /\ reqs[i].sock = s
  /\ i \in pending
  /\ LET r1 == [Settle(reqs[i], "resolved", "ok") EXCEPT !.removed = @ + 1, !.nrep = 1]
         rq == [reqs EXCEPT ![i] = r1]
         nx == IF reqs[i].kind = "app" THEN "acct" ELSE "sub"
     IN
       IF reqs[i].kind \in {"app", "acct"}
       THEN /\ Len(reqs) < MaxReq
            /\ reqs' = Vc_sendWS(rq, nx, sock, ws)
            /\ pending' = (pending \ {i}) \cup {Len(reqs) + 1}
            /\ UNCHANGED socketReady
       ELSE /\ reqs' = rq
            /\ pending' = pending \ {i}
            /\ socketReady' = TRUE
  /\ UNCHANGED <<started, sock, ws, timers>>
  /\ UNCHANGED Vc_rest

\* the safety timeout of sendWS: if pending.has(id), pending.delete(id) and
\* reject; the rejection of a handshake step lands in the chain's catch:
\* ws.close() on the module-level ws
Vc_timeout(i) ==
  /\ reqs[i].timer
  /\ reqs' = [reqs EXCEPT ![i] =
                [(IF i \in pending
                  THEN [Settle(@, "timeout", "none") EXCEPT !.removed = @ + 1]
                  ELSE @) EXCEPT !.timer = FALSE]]
  /\ pending' = pending \ {i}
  /\ sock' = IF i \in pending THEN WsClose(sock, ws) ELSE sock
  /\ UNCHANGED <<started, ws, socketReady, timers>>
  /\ UNCHANGED Vc_rest

\* ws.on('close'): setTimeout(openSocket, 5_000); pending is left as it is
Vc_onClose(s) ==
  /\ sock[s] \in Live
  /\ sock' = [sock EXCEPT ![s] = "closed"]
  /\ timers' = Append(timers, Vc_CloseDelay)
  /\ UNCHANGED <<started, ws, socketReady, pending, reqs>>
  /\ UNCHANGED Vc_rest

\* the reconnect timer fires: openSocket()
Vc_reconnect(j) ==
  /\ timers' = Drop(timers, j)
  /\ Vc_openSocket
  /\ UNCHANGED <<started, pending, reqs>>
  /\ UNCHANGED Vc_rest

NextC ==
  \/ Vc_boot
  \/ \E s \in Socks : Vc_onOpen(s)
  \/ \E s \in Socks, i \in Ids : Vc_onMessage(s, i)
  \/ \E i \in Ids : Vc_timeout(i)
  \/ \E s \in Socks : Vc_onClose(s)
  \/ \E j \in 1..Len(timers) : Vc_reconnect(j)

SpecC == InitC /\ [][NextC]_vars

\* ============================================================== SpecTok
\* The token code alone: SmartTokenManager of index.js with the two
\* authenticate* calls that await it ("Idx"), refreshToken of part_001
\* ("A") and refreshToken of part_003 lines 192-229 ("P3").

\* Math.random(), in thousandths
RandMilli == {0, 999}
\* base + Math.random()*base
R_wait(base, r) == base + (r * base) \div 1000
\* (expires - 60 + (Math.random()*10 - 5)) * 1000; values beyond the
\* largest timer delay are all the same to setTimeout and are kept as
\* Node_MaxTimeout
R_next(expires, r) ==
  IF expires - 60 > Node_MaxTimeout \div 1000 - 5
  THEN Node_MaxTimeout
  ELSE (expires - 60) * 1000 + (r * 10 - 5000)
\* setTimeout(f, d): a delay below 1 or above 2^31 - 1 is replaced by 1
Node_delay(d) == IF d < 1 \/ d >= Node_MaxTimeout THEN 1 ELSE d
\* Math.max
Max(a, b) == IF a > b THEN a ELSE b

\* The body of a 2xx answer to the id-th request: the token fields in
\* snake case (access_token, refresh_token, expires_in) or in camel case
\* (accessToken, refreshToken, expiresIn); at is the access token issued,
\* rt the refresh token (0: none returned), exp the expires-in value in
\* seconds (-1: none returned).
Tok_ExpiresIn == {-1, 0, 30, 2628000}
Tok_Bodies(id) ==
  [shape : {"snake", "camel"}, at : {id}, rt : {0, id}, exp : Tok_ExpiresIn]

\* index.js: data.accessToken, data.refreshToken, data.expiresIn
Idx_data(body) ==
  IF body.shape = "camel"
  THEN [accessToken |-> body.at, refreshToken |-> body.rt, expiresIn |-> body.exp]
  ELSE [accessToken |-> 0, refreshToken |-> 0, expiresIn |-> -1]
\* data.expiresIn || 2628000
Idx_expiresIn(d) == IF d.expiresIn \in {-1, 0} THEN Idx_DefaultExpires ELSE d.expiresIn
\* scheduleNextRefresh(seconds): safeTimeout
Idx_safeTimeout(seconds) == Min(Max(seconds, Idx_minTimeout), Idx_maxTimeout)

\* part_001: j.access_token, j.refresh_token, j.expires_in ?? j.expiresIn ?? 900
R_json(body) ==
  [access_token  |-> IF body.shape = "snake" THEN body.at ELSE 0,
   refresh_token |-> IF body.shape = "snake" THEN body.rt ELSE 0,
   expires       |-> IF body.exp = -1 THEN R_DefaultExpires ELSE body.exp]

\* Math.min(60000 * Math.pow(2, this.retryCount), 300000)
Tok_backoff(rc) == Min(Tok_BaseBackoff * Pow2(rc), Tok_MaxBackoff)

\* fetch('https://openapi.ctrader.com/apps/token'): one more request is in
\* flight; a request a timer made after a failure records how long after
Tok_fetch(cause, gap) ==
  /\ nfetch < MaxFetches
  /\ fetches' = fetches + 1
  /\ nfetch' = nfetch + 1
  /\ retry' = IF cause = "none" THEN retry ELSE [cause |-> cause, gap |-> gap]
  /\ sentRefresh' = currentRefresh

\* ---- index.js: SmartTokenManager
Idx_mayRefresh_always == TRUE
\* refreshAccessToken goes on only if no refresh is running
Idx_mayRefresh == ~isRefreshing

Idx_returned_atCall(cur, seen) == seen
\* what `await this.tokenManager.getValidToken()` evaluates to: this.accessToken
\* as read when the call returns (cur), not when it was made (seen)
Idx_returned(cur, seen) == cur

\* refreshAccessToken, from the guard to `await fetch(...)`
Idx_refreshAccessToken(cause, gap) ==
  /\ isRefreshing' = TRUE
  /\ tokPc' = [Idle EXCEPT !.at = "fetch"]
  /\ Tok_fetch(cause, gap)

\* authenticateApplication / authenticateAccount: the auth message is built
\* and sent as soon as getValidToken has returned
Idx_sendAuth(cs, cur) ==
  authSent' = authSent \cup
                {[tok |-> Idx_returned(cur, callers[c].seen), stored |-> cur] : c \in cs}

\* authenticate*(c) calls getValidToken()
Idx_getValidToken(c) ==
  /\ variant = "Idx"
  /\ callers[c].pc = "idle"
  /\ IF accessToken # 0 /\ fresh
     THEN /\ Idx_sendAuth({c}, accessToken)
          /\ UNCHANGED <<callers, isRefreshing, tokPc, fetches, nfetch, retry, sentRefresh>>
     ELSE IF isRefreshing
     THEN /\ callers' = [callers EXCEPT ![c] = Waiting("poll", accessToken)]
          /\ UNCHANGED <<authSent, isRefreshing, tokPc, fetches, nfetch, retry, sentRefresh>>
     ELSE /\ Idx_mayRefresh
          /\ Idx_refreshAccessToken("none", 0)
          /\ callers' = [callers EXCEPT ![c] = Waiting("own", accessToken)]
          /\ UNCHANGED authSent
  /\ UNCHANGED <<accessToken, fresh, retryCount, refreshTimeout, tokTimers, propagated>>
  /\ UNCHANGED <<started, Tok_rest, currentRefresh, lastResp, pendingRefreshToken>>

\* the setInterval of getValidToken sees the refresh over
Idx_poll(c) ==
  /\ variant = "Idx"
  /\ callers[c].pc = "poll"
  /\ ~isRefreshing
  /\ callers' = [callers EXCEPT ![c] = Waiting("idle", 0)]
  /\ IF accessToken # 0
     THEN Idx_sendAuth({c}, accessToken) /\ UNCHANGED propagated
     ELSE propagated' = propagated \cup {"failed"} /\ UNCHANGED authSent
  /\ UNCHANGED <<accessToken, fresh, isRefreshing, retryCount, refreshTimeout,
                 tokTimers, fetches, nfetch, tokPc, retry, sentRefresh>>
  /\ UNCHANGED <<started, Tok_rest, currentRefresh, lastResp, pendingRefreshToken>>

\* the retry timer of the catch block fires
Idx_retryTimer(j) ==
  /\ variant = "Idx"
  /\ j \in 1..Len(tokTimers)
  /\ tokTimers' = Drop(tokTimers, j)
  /\ IF Idx_mayRefresh
     THEN Idx_refreshAccessToken(tokTimers[j].cause, tokTimers[j].delay)
     ELSE UNCHANGED <<isRefreshing, tokPc, fetches, nfetch, retry, sentRefresh>>
  /\ UNCHANGED <<accessToken, fresh, retryCount, refreshTimeout, callers, authSent,
                 propagated>>
  /\ UNCHANGED <<started, Tok_rest, currentRefresh, lastResp, pendingRefreshToken>>

\* the timer of scheduleNextRefresh fires
Idx_scheduledRefresh ==
  /\ variant = "Idx"
  /\ refreshTimeout # 0
  /\ refreshTimeout' = 0
  /\ IF Idx_mayRefresh
     THEN Idx_refreshAccessToken("none", 0)
     ELSE UNCHANGED <<isRefreshing, tokPc, fetches, nfetch, retry, sentRefresh>>
  /\ UNCHANGED <<accessToken, fresh, retryCount, tokTimers, callers, authSent,
                 propagated>>
  /\ UNCHANGED <<started, Tok_rest, currentRefresh, lastResp, pendingRefreshToken>>

Idx_owners == {c \in Callers : callers[c].pc = "own"}
Idx_release ==
  callers' = [c \in Callers |->
                IF callers[c].pc = "own" THEN Waiting("idle", 0) ELSE callers[c]]

\* refreshAccessToken from the expiry update to its return, and the
\* authenticate* call that awaited it
Idx_completed(cur, expiresIn) ==
  /\ fresh' = (expiresIn > Idx_ValidFor)
  /\ refreshTimeout' = Idx_safeTimeout(expiresIn - Idx_RefreshMargin)
  /\ retryCount' = 0
  /\ isRefreshing' = FALSE
  /\ tokPc' = Idle
  /\ Idx_release
  /\ Idx_sendAuth(Idx_owners, cur)
  /\ UNCHANGED <<tokTimers, propagated>>

\* the catch and finally blocks of refreshAccessToken
Idx_failed(out) ==
  /\ retryCount' = retryCount + 1
  /\ tokTimers' =
       IF out = "denied" \/ retryCount + 1 >= Tok_maxRetries
       THEN tokTimers
       ELSE Append(tokTimers,
                   [delay |-> Tok_backoff(retryCount + 1), arg |-> 0, cause |-> out])
  /\ isRefreshing' = FALSE
  /\ tokPc' = Idle
  /\ Idx_release
  /\ propagated' = propagated \cup (IF Idx_owners # {} THEN {out} ELSE {})
  /\ UNCHANGED <<accessToken, fresh, refreshTimeout, authSent>>

\* the token endpoint answers: 2xx with a token (fly: a refresh token came
\* and updateFlySecret is awaited next), 429, another failure, or
\* ACCESS_DENIED / INVALID_GRANT
Idx_fetchDone(out, fly, body) ==
  /\ variant = "Idx"
  /\ fetches > 0
  /\ tokPc.at = "fetch"
  /\ fetches' = fetches - 1
  /\ IF out = "ok"
     THEN LET d == Idx_data(body) IN
          /\ fly => d.refreshToken # 0
          /\ accessToken' = d.accessToken
          /\ currentRefresh' = IF d.refreshToken # 0 THEN d.refreshToken
                                                     ELSE currentRefresh
          /\ pendingRefreshToken' = IF d.refreshToken # 0 THEN d.refreshToken
                                                          ELSE pendingRefreshToken
          /\ lastResp' = [at |-> body.at, rt |-> body.rt]
          /\ IF fly
             THEN /\ tokPc' = [Idle EXCEPT !.at = "secret", !.exp = Idx_expiresIn(d)]
                  /\ UNCHANGED <<fresh, refreshTimeout, retryCount, isRefreshing,
                                 callers, authSent, tokTimers, propagated>>
             ELSE Idx_completed(d.accessToken, Idx_expiresIn(d))
     ELSE /\ Idx_failed(out)
          /\ UNCHANGED <<currentRefresh, lastResp, pendingRefreshToken>>
  /\ UNCHANGED <<nfetch, retry, sentRefresh>>
  /\ UNCHANGED <<started, Tok_rest>>

\* updateFlySecret returns
Idx_secretDone ==
  /\ variant = "Idx"
  /\ tokPc.at = "secret"
  /\ Idx_completed(accessToken, tokPc.exp)
  /\ UNCHANGED <<accessToken, fetches, nfetch, retry, sentRefresh>>
  /\ UNCHANGED <<started, Tok_rest, currentRefresh, lastResp, pendingRefreshToken>>

\* time passes: the token is within an hour of its expiry
Idx_expire ==
  /\ variant = "Idx"
  /\ fresh
  /\ fresh' = FALSE
  /\ UNCHANGED <<accessToken, isRefreshing, retryCount, refreshTimeout, tokTimers,
                 fetches, nfetch, tokPc, callers, authSent, propagated, retry, sentRefresh>>
  /\ UNCHANGED <<started, Tok_rest, currentRefresh, lastResp, pendingRefreshToken>>

\* ---- part_001, part_003: refreshToken(delay)
R_variants == {"A", "P3"}

\* refreshToken(delay) up to its first await; acc is the time since the
\* failure that led to this call
R_refreshToken(delay, cause, acc) ==
  IF delay # 0
  THEN /\ tokPc' = [Idle EXCEPT !.at = "sleep", !.delay = delay, !.cause = cause,
                                !.acc = acc]
       /\ UNCHANGED <<fetches, nfetch, retry, sentRefresh>>
  ELSE /\ tokPc' = [Idle EXCEPT !.at = "fetch"]
       /\ Tok_fetch(cause, acc)

\* `await refreshToken()` at start-up
R_boot ==
  /\ variant \in R_variants
  /\ ~started
  /\ started' = TRUE
  /\ R_refreshToken(0, "none", 0)
  /\ callers' = [callers EXCEPT !["app"] = Waiting("own", accessToken)]
  /\ UNCHANGED <<accessToken, fresh, isRefreshing, retryCount, refreshTimeout,
                 tokTimers, authSent, propagated>>
  /\ UNCHANGED <<Tok_rest, currentRefresh, lastResp, pendingRefreshToken>>

\* the delay of refreshToken(delay) is over
R_wake ==
  /\ variant \in R_variants
  /\ tokPc.at = "sleep"
  /\ tokPc' = [Idle EXCEPT !.at = "fetch"]
  /\ Tok_fetch(tokPc.cause, tokPc.acc + tokPc.delay)
  /\ UNCHANGED <<accessToken, fresh, isRefreshing, retryCount, refreshTimeout,
                 tokTimers, callers, authSent, propagated>>
  /\ UNCHANGED <<started, Tok_rest, currentRefresh, lastResp, pendingRefreshToken>>

\* the callback of setTimeout after a failure: part_001 passes refreshToken
\* itself, part_003 calls refreshToken(wait)
R_retryArg(w) == IF variant = "P3" THEN w ELSE 0

\* the token endpoint answers; r is the Math.random() the branch draws.
\* Every non-2xx answer but 429 is thrown at `if (!res.ok)`.
R_fetchDone(out, r, body) ==
  /\ variant \in R_variants
  /\ tokPc.at = "fetch"
  /\ fetches' = fetches - 1
  /\ IF out = "429"
     THEN /\ tokPc' = [Idle EXCEPT !.at = "sleep", !.delay = R_wait(R_Wait429, r),
                                   !.cause = "429"]
          /\ UNCHANGED <<accessToken, tokTimers, callers, currentRefresh, lastResp, pendingRefreshToken>>
     ELSE /\ tokPc' = Idle
          /\ callers' = [callers EXCEPT !["app"] = Waiting("idle", 0)]
          /\ IF out = "ok"
             THEN LET j == R_json(body) IN
                  /\ accessToken' = j.access_token
                  /\ currentRefresh' = IF j.refresh_token # 0 THEN j.refresh_token
                                                              ELSE currentRefresh
                  /\ lastResp' = [at |-> body.at, rt |-> body.rt]
                  /\ UNCHANGED pendingRefreshToken
                  /\ tokTimers' = Append(tokTimers,
                       [delay |-> Node_delay(R_next(j.expires, r)), arg |-> 0,
                        cause |-> "none"])
             ELSE /\ tokTimers' = Append(tokTimers,
                       [delay |-> R_wait(R_WaitError, r),
                        arg   |-> R_retryArg(R_wait(R_WaitError, r)),
                        cause |-> out])
                  /\ UNCHANGED <<accessToken, currentRefresh, lastResp, pendingRefreshToken>>
  /\ UNCHANGED <<fresh, isRefreshing, retryCount, refreshTimeout, nfetch, authSent,
                 propagated, retry, sentRefresh>>
  /\ UNCHANGED <<started, Tok_rest>>

\* a setTimeout of refreshToken fires
R_timer(j) ==
  /\ variant \in R_variants
  /\ j \in 1..Len(tokTimers)
  /\ tokTimers' = Drop(tokTimers, j)
  /\ R_refreshToken(tokTimers[j].arg, tokTimers[j].cause, tokTimers[j].delay)
  /\ UNCHANGED <<accessToken, fresh, isRefreshing, retryCount, refreshTimeout,
                 callers, authSent, propagated>>
  /\ UNCHANGED <<started, Tok_rest, currentRefresh, lastResp, pendingRefreshToken>>

\* the open handler sends ACCOUNT-AUTH with the module's accessToken
R_accountAuth ==
  /\ variant \in R_variants
  /\ started
  /\ callers["app"].pc = "idle"
  /\ authSent' = authSent \cup {[tok |-> accessToken, stored |-> accessToken]}
  /\ UNCHANGED <<accessToken, fresh, isRefreshing, retryCount, refreshTimeout,
                 tokTimers, fetches, nfetch, tokPc, callers, propagated, retry, sentRefresh>>
  /\ UNCHANGED <<started, Tok_rest, currentRefresh, lastResp, pendingRefreshToken>>

Tok_Outcomes == {"ok", "429", "error", "denied"}

\* the body read from an answer: only a 2xx answer's body is parsed for
\* tokens (response.json() after the status checks)
Tok_NoBody == [shape |-> "snake", at |-> 0, rt |-> 0, exp |-> -1]
Tok_BodiesOf(out, id) == IF out = "ok" THEN Tok_Bodies(id) ELSE {Tok_NoBody}

NextTok ==
  \/ \E c \in Callers : Idx_getValidToken(c)
  \/ \E c \in Callers : Idx_poll(c)
  \/ \E j \in 1..Len(tokTimers) : Idx_retryTimer(j)
  \/ Idx_scheduledRefresh
  \/ \E out \in Tok_Outcomes, fly \in BOOLEAN :
       \E body \in Tok_BodiesOf(out, nfetch) : Idx_fetchDone(out, fly, body)
  \/ Idx_secretDone
  \/ Idx_expire
  \/ R_boot
  \/ R_wake
  \/ \E out \in Tok_Outcomes, r \in RandMilli :
       \E body \in Tok_BodiesOf(out, nfetch) : R_fetchDone(out, r, body)
  \/ \E j \in 1..Len(tokTimers) : R_timer(j)
  \/ R_accountAuth

InitTok == variant \in {"Idx", "A", "P3"} /\ Start
SpecTok == InitTok /\ [][NextTok]_vars

\* ---- GET /token-update of index.js
\* values of process.env.TOKEN_UPDATE_KEY, and of the x-auth-key header and
\* the key query parameter of a request
TokenUpdateKeys == {Undefined, "k1"}
RequestKeys     == {Undefined, "k1", "k2"}

\* a || b
Js_or(a, b) == IF a \in {Undefined, ""} THEN b ELSE a

\* what GET /token-update leaves alone
Upd_rest == <<variant, started, sock, ws, socketReady, reconnectDelay, pingTimer,
              pending, reqs, timers, httpNow, isAuthenticated, heartbeatInterval,
              reconnectTimeout, connectionAttempts, messageHandlers, now, authWait,
              inflight, first, alive, accessToken, fresh, isRefreshing, retryCount,
              refreshTimeout, tokTimers, fetches, nfetch, tokPc, callers, authSent,
              propagated, retry, currentRefresh, sentRefresh, lastResp, wsOut,
              msgLog, stopped, tokenUpdateKey>>

\* app.get('/token-update') with header h and query parameter q: 401 unless
\* authKey === process.env.TOKEN_UPDATE_KEY; else the pending refresh token
\* is sent and cleared, or 'no_pending_token'
Idx_tokenUpdate(h, q) ==
  /\ variant = "Idx"
  /\ LET authKey == Js_or(h, q) IN
       IF authKey # tokenUpdateKey
       THEN /\ tokenUpdate' = [status |-> 401, token |-> 0, key |-> authKey]
            /\ UNCHANGED pendingRefreshToken
       ELSE /\ tokenUpdate' = [status |-> 200, token |-> pendingRefreshToken,
                               key |-> authKey]
            /\ pendingRefreshToken' = 0
  /\ UNCHANGED Upd_rest

NextUpd ==
  \/ \E c \in Callers : Idx_getValidToken(c)
  \/ \E c \in Callers : Idx_poll(c)
  \/ \E j \in 1..Len(tokTimers) : Idx_retryTimer(j)
  \/ Idx_scheduledRefresh
  \/ \E out \in Tok_Outcomes, fly \in BOOLEAN :
       \E body \in Tok_BodiesOf(out, nfetch) : Idx_fetchDone(out, fly, body)
  \/ Idx_secretDone
  \/ Idx_expire
  \/ \E h, q \in RequestKeys : Idx_tokenUpdate(h, q)

InitUpd ==
  /\ variant = "Idx"
  /\ StartConn /\ StartRest
  /\ msgLog = FALSE
  /\ tokenUpdateKey \in TokenUpdateKeys
SpecUpd == InitUpd /\ [][NextUpd]_vars

\* ---- index.js after k consecutive connection attempts that closed before
\* they opened (code 1006): connect() has counted them, onClose has armed
\* the reconnect timer.  Their sockets are closed and are not among Socks;
\* ws = 0 stands for the last of them, which sendMessage treats like null.
InitIdxRetry ==
  /\ variant = "Idx"
  /\ StartRest
  /\ msgLog = FALSE
  /\ tokenUpdateKey = Undefined
  /\ authWait = [app |-> 0, acct |-> 0]
  /\ \E k \in 0..MaxPrior :
       /\ started = (k > 0)
       /\ connectionAttempts = k
       /\ reconnectTimeout = IF k = 0 THEN 0 ELSE Idx_scheduleReconnect(0, k)
SpecIdxRetry == InitIdxRetry /\ [][NextIdx]_vars

\* index.js from the start, or after a connection that answered the
\* application authentication and closed while authenticateAccount() awaited
\* its token: the close handler has armed the reconnect timer
\* (connectionAttempts was reset by onOpen) and the authenticateAccount()
\* call is still outstanding
InitIdxLost ==
  /\ variant = "Idx"
  /\ StartRest
  /\ msgLog = FALSE
  /\ tokenUpdateKey = Undefined
  /\ connectionAttempts = 0
  /\ \E lost \in BOOLEAN :
       /\ started = lost
       /\ reconnectTimeout = IF lost THEN Idx_scheduleReconnect(0, 0) ELSE 0
       /\ authWait = [app |-> 0, acct |-> IF lost THEN 1 ELSE 0]
SpecIdxLost == InitIdxLost /\ [][NextIdx]_vars

\* sendOrder(orderData) called on the client in any state: throws while not
\* authenticated; else clientMsgId = `order_${Date.now()}`, the 15 s timeout
\* is armed, messageHandlers.set(id, handler), sendMessage; if that fails
\* the timeout is cleared, the handler deleted and the promise rejected
Idx_sendOrder ==
  /\ Len(reqs) < MaxOrders
  /\ IF ~isAuthenticated
     THEN /\ reqs' = Append(reqs, Settle(NewReq("order", 0, 0, sock, FALSE),
                                         "unsent", "none"))
          /\ UNCHANGED messageHandlers
     ELSE LET n   == Len(reqs) + 1
              old == IF Idx_has(messageHandlers, now) THEN messageHandlers[now] ELSE 0
              rq  == [i \in Ids |-> IF i = old THEN [reqs[i] EXCEPT !.removed = @ + 1]
                                    ELSE reqs[i]]
              ok  == Idx_canSend(sock, ws)
              r   == NewReq("order", now, ws, sock, ok)
          IN
            /\ reqs' = Append(rq, IF ok THEN r ELSE Settle(r, "unsent", "none"))
            /\ messageHandlers' = IF ok THEN Idx_set(messageHandlers, now, n)
                                  ELSE Idx_delete(messageHandlers, now)
  /\ httpNow' = 0
  /\ UNCHANGED <<started, sock, ws, isAuthenticated, heartbeatInterval, reconnectTimeout,
                 connectionAttempts, now, authWait, inflight>>
  /\ UNCHANGED Idx_rest

NextIdxApi ==
  \/ NextIdx
  \/ Idx_sendOrder

SpecIdxApi == InitIdxLost /\ [][NextIdxApi]_vars

\* ------------------------------------------------- combined specifications
\* the two variants that arm a timeout per order
NextAIdx ==
  \/ variant = "A" /\ NextA
  \/ variant = "Idx" /\ NextIdx

SpecAIdx == InitAIdx /\ [][NextAIdx]_vars

\* part_003 with the event loop's guarantee that an armed timer fires
FairSpecG == SpecG /\ WF_vars(\E j \in 1..Len(timers) : G_reconnect(j))

\* request i has an entry registered: a key of pending (part_001), a
\* handler of messageHandlers (index.js), a message listener (part_003)
Registered(i) ==
  \/ i \in pending
  \/ \E c \in DOMAIN messageHandlers : messageHandlers[c] = i

\* ------------------------------------------------------------------ C1
\* C1: every request registered by sendWS is settled at most once and its
\* pending entry removed at most once, whatever the order of reply, timeout
\* and close: while unsettled it is in pending with its timeout armed, once
\* settled (by exactly one resolve/reject call) it is out of pending for
\* good, removed exactly once, with no timeout left to fire.
C1_SettledOnce ==
  \A i \in Ids :
    LET r == reqs[i] IN
      /\ r.settles <= 1 /\ r.removed <= 1
      /\ (r.st = "pending") <=> (i \in pending)
      /\ r.st = "pending" => r.settles = 0 /\ r.removed = 0 /\ r.timer
      /\ r.st # "pending" => r.settles = 1 /\ r.removed = 1 /\ ~r.timer

\* one run in which a request was resolved by its reply, another rejected
\* by its timeout (and its late reply then arrived), a third rejected by close
C1_Witness ==
  \E i, j, k \in Ids :
    /\ reqs[i].st = "resolved"
    /\ reqs[j].st = "timeout" /\ reqs[j].nrep > 0
    /\ reqs[k].st = "closed"


\* ------------------------------------------------------------------ C2
\* C2: whenever a socket incarnation sends its first authentication
\* message (the APP-AUTH request of the open handler), the pending map
\* holds no entry at that moment: everything registered before has been
\* rejected and removed.
C2_AuthSent ==
  /\ Len(reqs') = Len(reqs) + 1
  /\ reqs'[Len(reqs')].kind = "app"

C2_DrainedBeforeAuth == [][C2_AuthSent => pending = {}]_vars

\* ------------------------------------------------------------------ C3
\* C3: an ACCOUNT-AUTH request exists on a socket only if that socket's
\* APP-AUTH request was resolved by a reply without an error payload, and
\* the session is ready with its ping timer running only if the
\* ACCOUNT-AUTH request was resolved by a reply without an error payload.
C3_authOk(kind, h) ==
  \E i \in Ids : /\ reqs[i].kind = kind /\ reqs[i].sock = h
                 /\ reqs[i].st = "resolved" /\ reqs[i].reply = "ok"

C3_HandshakeOrder ==
  /\ \A i \in Ids : reqs[i].kind = "acct" => C3_authOk("app", reqs[i].sock)
  /\ pingTimer => C3_authOk("acct", ws)

\* ------------------------------------------------------------------ C4
\* C4: while the session is not Ready (the current socket is not open or
\* its handshake has not completed), POST /order registers no request and
\* sends nothing: no step taken in such a state adds an order request.
C4_Ready ==
  /\ ws # 0 /\ sock[ws] = "open"
  /\ \E i \in Ids : reqs[i].kind = "acct" /\ reqs[i].sock = ws /\ reqs[i].st = "resolved"

C4_OrderAdded ==
  /\ Len(reqs') = Len(reqs) + 1
  /\ reqs'[Len(reqs')].kind = "order"

C4_NotReady503 == [][~C4_Ready => ~C4_OrderAdded]_vars
\* ------------------------------------------------------------------ C5
\* C5: at any time at most one reconnect timer is outstanding.
C5_OneReconnectTimer ==
  /\ Len(timers) <= 1
  /\ reconnectTimeout # 0 => Len(timers) = 0

\* ------------------------------------------------------------------ C6
\* C6: whenever a socket closes, every request outstanding at that moment
\* is rejected in the same step, no entry stays registered, and a
\* reconnect is scheduled.
C6_SocketClosed == \E s \in Socks : sock[s] # "closed" /\ sock'[s] = "closed"

C6_CloseRejectsAll ==
  [][C6_SocketClosed =>
       /\ \A i \in Ids : reqs'[i].st # "pending" /\ ~Registered(i)'
       /\ Len(timers') = Len(timers) + 1 \/ reconnectTimeout' # 0]_vars

\* ------------------------------------------------------------------ C7
\* C7: an order answered 200 carries the order id of the reply to itself,
\* never that of another request, and no reply answers two requests.
C7_OwnReplyOnly ==
  \A i \in Ids : reqs[i].kind = "order" /\ reqs[i].http = 200 => reqs[i].orderId = i

\* ------------------------------------------------------------------ C8
\* C8: any two requests pending at the same time have distinct
\* correlation ids.
C8_DistinctIds ==
  \A i, j \in Ids :
    i # j /\ reqs[i].st = "pending" /\ reqs[j].st = "pending" => reqs[i].cid # reqs[j].cid

\* ------------------------------------------------------------------ C9
\* C9: an order whose timeout has fired is rejected with the timeout error
\* (HTTP 400), exactly once, and has no entry left; this stays so whatever
\* reply arrives afterwards.  A timeout that has fired always settled or
\* found settled its request.
C9_TimeoutRejects ==
  \A i \in Ids :
    reqs[i].kind = "order" =>
      /\ reqs[i].st = "timeout" =>
           /\ reqs[i].settles = 1 /\ reqs[i].http = 400
           /\ ~reqs[i].timer /\ ~Registered(i)
      /\ ~reqs[i].timer => reqs[i].st # "pending"

\* an order timed out and its reply came afterwards
C9_Witness ==
  \E i \in Ids :
    /\ reqs[i].kind = "order" /\ reqs[i].st = "timeout"
    /\ reqs[i].nrep > 0 /\ reqs[i].settles = 1 /\ reqs[i].http = 400

\* ------------------------------------------------------------------ C10
\* C10: every registered entry is eventually removed.  (A run that has
\* used up the sockets of the model is not held against the claim.)
C10_EventuallyRemoved ==
  \A i \in 1..MaxOrders : Registered(i) ~> (~Registered(i) \/ ~CanOpen)
\* ------------------------------------------------------------------ C11
\* C11: an order resolved by a success reply (either payload shape) is
\* answered 200 with the order id that reply contains.
C11_OrderIdVerbatim ==
  \A i \in Ids :
    reqs[i].kind = "order" /\ reqs[i].st = "resolved"
                           /\ reqs[i].reply \in {"ok", "flat"} =>
      reqs[i].http = 200 /\ reqs[i].orderId = i
\* ------------------------------------------------------------------ C12
\* C12: while a request to the token endpoint is in flight no other one
\* is started, however many getValidToken() calls and timers arrive.
C12_SingleFlight == [][fetches > 0 => nfetch' = nfetch]_vars

\* two getValidToken() calls wait on the one request that was made
C12_Witness ==
  /\ variant = "Idx" /\ fetches = 1 /\ nfetch = 1
  /\ \E c \in Callers : callers[c].pc = "own"
  /\ \E c \in Callers : callers[c].pc = "poll"
C14_AuthRejected ==
  \E i \in Ids : reqs[i].kind \in {"app", "acct"} /\ reqs[i].reply = "err"

\* C14: once the gateway has rejected an authentication, no reconnect is
\* scheduled and no socket is opened any more.
C14_NoRetryAfterRejection ==
  [][C14_AuthRejected =>
       /\ Len(timers') <= Len(timers)
       /\ \A s \in Socks : sock[s] = "none" => sock'[s] = "none"]_vars
\* ------------------------------------------------------------------ C15
\* C15: the step in which an error reply to the account authentication
\* arrives leaves the session not ready, its socket closing or closed, and
\* the reconnect delay as it was.
C15_AccountAuthError ==
  [][\A i \in Ids :
       reqs[i].kind = "acct" /\ reqs[i].reply # "err" /\ reqs'[i].reply = "err" =>
         /\ ~socketReady'
         /\ sock'[reqs[i].sock] \in {"closing", "closed"}
         /\ reconnectDelay' = reconnectDelay]_vars
\* ------------------------------------------------------------------ C16
\* the socket on which the account authentication last succeeded (0: none)
C16_lastReady ==
  LET S == {reqs[i].sock : i \in {j \in Ids : /\ reqs[j].kind = "acct"
                                              /\ reqs[j].st = "resolved"
                                              /\ reqs[j].reply # "err"}}
  IN IF S = {} THEN 0 ELSE CHOOSE s \in S : \A t \in S : t <= s
\* the closes since start or since the last Ready transition
C16_k == Cardinality({t \in Socks : sock[t] = "closed" /\ t >= C16_lastReady})

\* C16: the close handler schedules the k-th consecutive reconnect since
\* start or since the last Ready transition after min(5000 * 2^(k-1), 60000) ms.
C16_BackoffDelay ==
  [][\A s \in Socks :
       sock[s] \in Live /\ sock'[s] = "closed" =>
         timers' = Append(timers, Min(InitialDelay * Pow2(C16_k' - 1), MaxDelay))]_vars
\* ------------------------------------------------------------------ C17
\* C17: the reconnect that follows a close is made: when the reconnect
\* timer fires, a new socket is created.
C17_ReconnectMade ==
  [][reconnectTimeout # 0 /\ reconnectTimeout' = 0 =>
       \E s \in Socks : sock[s] = "none" /\ sock'[s] = "connecting"]_vars
\* ------------------------------------------------------------------ C18
\* C18: at most one of the client's WebSockets is connecting or open.
C18_OneLiveSocket ==
  Cardinality({s \in Socks : sock[s] \in {"connecting", "open"}}) <= 1
\* ------------------------------------------------------------------ C19
\* C19: after an HTTP 429 the refresh is retried 30000..60000 ms later, and
\* no caller awaiting a token gets the 429 as an error.
C19_Retry429 ==
  /\ retry.cause = "429" => retry.gap >= 30000 /\ retry.gap <= 60000
  /\ "429" \notin propagated

\* ------------------------------------------------------------------ C20
\* C20: after a refresh failure that is neither a 429 nor an invalid
\* refresh token, the next request is made 60000..120000 ms later.
C20_RetryAfterFailure ==
  retry.cause = "error" => retry.gap >= 60000 /\ retry.gap <= 120000
\* ------------------------------------------------------------------ C21
\* C21: no automatic retry is scheduled for a refresh that failed because
\* the refresh token itself is invalid.
C21_NoRetryWhenInvalid ==
  \A j \in 1..Len(tokTimers) : tokTimers[j].cause # "denied"
\* ------------------------------------------------------------------ C22
\* C22: the next automatic refresh is scheduled between 60 s and 86400 s
\* ahead, whatever expires-in value the provider reports.
C22_RefreshDelayBounds ==
  /\ refreshTimeout # 0 => refreshTimeout >= 60 /\ refreshTimeout <= 86400
  /\ \A j \in 1..Len(tokTimers) :
       tokTimers[j].cause = "none" =>
         tokTimers[j].delay >= 60000 /\ tokTimers[j].delay <= 86400000
\* ------------------------------------------------------------------ C23
\* C23: a 2xx answer of the token endpoint leaves its access token stored,
\* and its refresh token if it carries one (else the stored one is kept);
\* every request sends the refresh token stored when it is made.
C23_TokensStored ==
  [][/\ lastResp' # lastResp =>
          /\ accessToken' = lastResp'.at
          /\ currentRefresh' = IF lastResp'.rt # 0 THEN lastResp'.rt ELSE currentRefresh
     /\ nfetch' # nfetch => sentRefresh' = currentRefresh]_vars
\* ------------------------------------------------------------------ C24
\* C24: an order whose request timed out is answered 504.
C24_Timeout504 ==
  \A i \in Ids : reqs[i].kind = "order" /\ reqs[i].st = "timeout" => reqs[i].http = 504
\* ------------------------------------------------------------------ C25
\* C25: no request is registered (and no message sent) for an order that
\* is not a market order and has no price.
C25_InvalidNeverSent ==
  wsOut.orderType \notin {"", "MARKET"} => wsOut.limitPrice # 0

\* the order requests whose new-order message was handed to the socket
C26_sentOrders(rq) == {i \in 1..Len(rq) : rq[i].kind = "order" /\ rq[i].sent}

\* C26: each POST /order causes at most one new-order message: no step
\* sends more than one, a step that sends one is the POST /order itself (no
\* request is settled, no socket opened or closed in it), and a request that
\* was not sent is never sent later.
C26_NoResend ==
  [][/\ \A i \in Ids : reqs'[i].sent = reqs[i].sent
     /\ Cardinality(C26_sentOrders(reqs')) <= Cardinality(C26_sentOrders(reqs)) + 1
     /\ Cardinality(C26_sentOrders(reqs')) > Cardinality(C26_sentOrders(reqs)) =>
          /\ \A i \in Ids : reqs'[i].st = reqs[i].st
          /\ sock' = sock /\ ws' = ws]_vars

\* an order timed out or was cut off by a close, the client has since
\* reconnected, and that order's message is still the only one sent
C26_Witness ==
  \E i \in Ids :
    /\ reqs[i].kind = "order" /\ reqs[i].sent
    /\ reqs[i].st \in {"timeout", "closed"}
    /\ ws # 0 /\ ws # reqs[i].sock /\ sock[ws] = "open"
    /\ C26_sentOrders(reqs) = {i}

\* C27: a message whose clientMsgId is not a key of pending leaves the
\* pending map, every request's settlement state and timeout, and
\* socketReady unchanged.
C27_UnsolicitedFrame ==
  [][(\E i \in Ids : i \notin pending /\ reqs[i].nrep = 0 /\ reqs'[i].nrep = 1) =>
       /\ pending' = pending
       /\ socketReady' = socketReady
       /\ Len(reqs') = Len(reqs)
       /\ \A k \in Ids : /\ reqs'[k].st = reqs[k].st
                         /\ reqs'[k].settles = reqs[k].settles
                         /\ reqs'[k].timer = reqs[k].timer
                         /\ reqs'[k].reply = reqs[k].reply]_vars

\* the reply to an order that had timed out has arrived while another
\* request is pending with its timeout armed
C27_Witness ==
  \E i \in Ids, k \in pending :
    /\ i \notin pending /\ reqs[i].nrep = 1 /\ reqs[i].st = "timeout"
    /\ reqs[k].st = "pending" /\ reqs[k].timer

\* C28: an order whose reply carries neither an order id nor an error
\* code is answered with a 5xx status.
C28_UnexpectedReply5xx ==
  \A i \in Ids :
    reqs[i].kind = "order" /\ reqs[i].st = "resolved" /\ reqs[i].reply = "odd" =>
      reqs[i].http >= 500

\* C29: in index.js a message that echoes the clientMsgId of an order
\* whose handler is registered runs that handler once and removes it,
\* whatever the message's payloadType: the order is settled by the reply.
C29_ReplyRunsHandler ==
  [][\A i \in Ids :
       /\ variant = "Idx"
       /\ reqs[i].kind = "order" /\ reqs[i].st = "pending"
       /\ Idx_has(messageHandlers, reqs[i].cid)
       /\ messageHandlers[reqs[i].cid] = i
       /\ reqs[i].nrep = 0 /\ reqs'[i].nrep = 1
       => /\ reqs'[i].st \in {"resolved", "failed"}
          /\ reqs'[i].settles = 1
          /\ reqs'[i].removed = reqs[i].removed + 1
          /\ ~Idx_has(messageHandlers', reqs[i].cid)]_vars

\* C30: when an authentication step started on one connection fails (its
\* timeout fires or it is rejected), no other connection is closed.
C30_FailureClosesOwnSocket ==
  [][\A i \in Ids :
       /\ reqs[i].kind \in {"app", "acct"}
       /\ reqs[i].st = "pending"
       /\ reqs'[i].st \in {"timeout", "closed"}
       => \A s \in Socks : s # reqs[i].sock => sock'[s] = sock[s]]_vars

\* ------------------------------------------------------------------ C31
\* C31: a getValidToken() call that waited on a running refresh never
\* resolves with the token that was already stored when it began to wait,
\* unless that is the token the latest request to the endpoint obtained.
C31_WaiterGetsNewToken ==
  [][\A c \in Callers :
       /\ variant = "Idx"
       /\ callers[c].pc = "poll" /\ callers'[c].pc = "idle"
       /\ accessToken # 0
       => accessToken = nfetch \/ accessToken # callers[c].seen]_vars

\* ------------------------------------------------------------------ C32
\* C32: every accepted POST /order is eventually answered.  (A run that
\* has used up the sockets of the model is not held against the claim.)
C32_EventuallyAnswered ==
  \A i \in 1..MaxOrders :
    (i \in Ids /\ reqs[i].kind = "order")
      ~> ((i \in Ids /\ reqs[i].http # 0) \/ ~CanOpen)

\* ------------------------------------------------------------------ C33
\* C33: as long as the token endpoint has not answered a refresh with a
\* token, part_001 / part_003 send no account-auth message.
C33_NoAuthWithoutToken ==
  variant \in R_variants /\ lastResp.at = 0 => authSent = {}

C35_OneRefreshTimer ==
  variant = "Idx" /\ accessToken = lastResp.at =>
    (IF refreshTimeout # 0 THEN 1 ELSE 0) + Len(tokTimers) <= 1

\* ------------------------------------------------------------------ C36
\* C36: the heartbeat timer is armed only while the current socket has not
\* closed: it is stopped whenever that socket closes and is not started
\* again before the next one is made.
C36_HeartbeatOnCurrentSocket ==
  (IF variant = "A" THEN pingTimer ELSE heartbeatInterval) =>
     ws # 0 /\ sock[ws] \in Live
\* ------------------------------------------------------------------ C37
\* the delays of the backoff ladder, in ms
C37_Ladder == {5000, 10000, 20000, 40000, 60000}

\* C37: every delay scheduleReconnect of index.js arms is one of 5, 10, 20,
\* 40 or 60 s, the first reconnect after a connection that had opened
\* included.
C37_DelayOnLadder ==
  variant = "Idx" /\ reconnectTimeout # 0 => reconnectTimeout \in C37_Ladder
C39_authorized(u) == tokenUpdateKey # Undefined /\ u.key = tokenUpdateKey

\* C39: GET /token-update hands the pending refresh token only to a request
\* that presents the configured key, and clears it; every other request gets
\* 401, no token, and leaves pendingRefreshToken as it was.
C39_OnlyWithConfiguredKey ==
  [][tokenUpdate' # tokenUpdate =>
       IF C39_authorized(tokenUpdate')
       THEN /\ tokenUpdate'.token = pendingRefreshToken
            /\ pendingRefreshToken' = 0
       ELSE /\ tokenUpdate'.status = 401
            /\ tokenUpdate'.token = 0
            /\ pendingRefreshToken' = pendingRefreshToken]_vars

====
